---- MODULE Spec2Model ----
(***************************************************************************)
(* Model of the three single-file services of this repository:            *)
(*   confluence_mcp.py  Confluence / GitHub tool server                    *)
(*   jira.py            Jira tool server                                   *)
(*   main.py            HTTP relay to the connector platform               *)
(* A process runs one of the modules: the module-level code loads the      *)
(* configuration from the environment (and may abort), then the server     *)
(* dispatches invocations to the handlers.  A handler blocks on each       *)
(* upstream HTTP call; the model splits a handler at its HTTP calls, so    *)
(* other handlers and the upstream may act while a request is in flight.   *)
(*                                                                         *)
(* Strings that the code only forwards are TLA+ strings; strings the code  *)
(* computes on (transition names, page content) are sequences of           *)
(* one-character strings.  f-strings are tuples of their parts.            *)
(***************************************************************************)
EXTENDS Integers, Sequences, FiniteSets, TLC

VARIABLES
    env,      \* process environment: variable name -> value (None when unset)
    svc,      \* which module this process runs
    phase,    \* "boot" (module not yet loaded), "running" (serving), "aborted"
    g,        \* module-level (process-wide) names of the running module
    inv,      \* one record per concurrently running handler invocation
    legal,    \* upstream: the issue's currently legal transitions, in order
    page,     \* upstream: the storage value of the Confluence page
    changes   \* number of upstream workflow changes made so far

vars == <<env, svc, phase, g, inv, legal, page, changes>>

-----------------------------------------------------------------------------
(* Bounds *)

NumSlots == 2          \* concurrently running invocations (concurrent specification)
MaxTransitions == 2    \* longest transition list the upstream holds
MaxChanges == 1        \* upstream workflow changes per behaviour
Margin == 2            \* page lengths tried on each side of the summary limit

(* Program constants *)

SummaryLimit == 500

-----------------------------------------------------------------------------
(* Values *)

None == "<None>"
Undefined == "<undefined>"

\* Python truthiness of an Optional[str]
Truthy(v) == v # None /\ v # ""

Range(f) == {f[i] : i \in DOMAIN f}

Services == {"confluence", "jira", "relay"}

EnvNames ==
    {"CONFLUENCE_BASE_URL", "CONFLUENCE_USER", "CONFLUENCE_TOKEN",
     "CONFLUENCE_SPACE_KEY", "GITHUB_TOKEN",
     "JIRA_BASE_URL", "JIRA_EMAIL", "JIRA_API_TOKEN",
     "FIVETRAN_API_KEY", "FIVETRAN_API_SECRET"}

EnvValues == {None, "", "v"}

\* the variables each service is documented to require
Required(service) ==
    CASE service = "confluence" ->
            {"CONFLUENCE_BASE_URL", "CONFLUENCE_USER", "CONFLUENCE_TOKEN"}
      [] service = "jira" ->
            {"JIRA_BASE_URL", "JIRA_EMAIL", "JIRA_API_TOKEN"}
      [] service = "relay" ->
            {"FIVETRAN_API_KEY", "FIVETRAN_API_SECRET"}

\* the variables each module reads with os.getenv
Reads(service) ==
    CASE service = "confluence" ->
            {"CONFLUENCE_BASE_URL", "CONFLUENCE_USER", "CONFLUENCE_TOKEN",
             "CONFLUENCE_SPACE_KEY", "GITHUB_TOKEN"}
      [] service = "jira" ->
            {"JIRA_BASE_URL", "JIRA_EMAIL", "CONFLUENCE_TOKEN"}
      [] service = "relay" ->
            {"FIVETRAN_API_KEY", "FIVETRAN_API_SECRET"}

Environments(service) ==
    {[n \in EnvNames |-> IF n \in DOMAIN f THEN f[n] ELSE None] :
        f \in [Reads(service) \cup Required(service) -> EnvValues]}

FullEnvironment(service) ==
    [n \in EnvNames |->
        IF n \in Reads(service) \cup Required(service) THEN "v" ELSE None]

getenv(name) == env[name]

\* transition names and the caller's status argument
Done == <<"D", "o", "n", "e">>
done == <<"d", "o", "n", "e">>
DONE == <<"D", "O", "N", "E">>
Node == <<"N", "o", "d", "e">>
Do   == <<"D", "o">>

TransitionNames == {Done, done, Node}
StatusArgs == {Done, done, DONE, Do}
TransitionIds == {"11", "21"}
Transitions == [id : TransitionIds, name : TransitionNames]

SeqsUpTo(S, n) == UNION {[1..k -> S] : k \in 0..n}
TransitionLists == SeqsUpTo(Transitions, MaxTransitions)

FewTransitionLists ==
    {<<>>,
     <<[id |-> "11", name |-> Done]>>,
     <<[id |-> "11", name |-> Node], [id |-> "21", name |-> done]>>}

\* page contents: a repeating pattern of a given length
Pattern(p, n) == [i \in 1..n |-> p[((i - 1) % Len(p)) + 1]]
PageLengths == {0, 1} \cup ((SummaryLimit - Margin)..(SummaryLimit + Margin))
PagePatterns == {<<"a", "b", "c">>, <<".">>}
Pages == {Pattern(p, n) : p \in PagePatterns, n \in PageLengths}

\* upstream responses: status line, raw body text, and whether the body is
\* the JSON document the handler goes on to read
Statuses == {200, 201, 202, 204, 304, 404, 500}
Bodies == {"body-1", "body-2"}
Responses == [status : Statuses, text : Bodies, json_ok : BOOLEAN]
FewResponses == [status : {200, 404}, text : {"body-1"}, json_ok : {TRUE}]
\* the answers that take transition_issue down each of its paths
TransitionResponses ==
    {r \in Responses : r.status \in {200, 204, 404} /\ (r.json_ok \/ r.status = 200)}

Ids == {"K-1"}
Texts == {"text-1", "text-2"}

-----------------------------------------------------------------------------
(* Module-level code: configuration load *)

NoGlobals ==
    [CONFLUENCE_BASE_URL |-> Undefined, CONFLUENCE_USER |-> Undefined,
     CONFLUENCE_TOKEN |-> Undefined, SPACE_KEY |-> Undefined,
     auth |-> <<>>, headers |-> <<>>,
     GITHUB_TOKEN |-> Undefined, HEADERS |-> <<>>, BASE_URL |-> Undefined,
     JIRA_BASE_URL |-> Undefined, JIRA_EMAIL |-> Undefined,
     JIRA_API_TOKEN |-> Undefined, AUTH_HEADER |-> <<>>,
     FIVETRAN_API_KEY |-> Undefined, FIVETRAN_API_SECRET |-> Undefined]

\* base64 of "user:password", kept as the pair it encodes
BasicAuth(user, password) == <<"Basic", user, ":", password>>

\* confluence_mcp.py, module level
ConfluenceStartup ==
    /\ svc = "confluence"
    /\ phase = "boot"
    /\ LET loaded == [g EXCEPT
                !.CONFLUENCE_BASE_URL = getenv("CONFLUENCE_BASE_URL"),
                !.CONFLUENCE_USER = getenv("CONFLUENCE_USER"),
                !.CONFLUENCE_TOKEN = getenv("CONFLUENCE_TOKEN"),
                !.SPACE_KEY = getenv("CONFLUENCE_SPACE_KEY")]
       IN  IF ~(Truthy(loaded.CONFLUENCE_BASE_URL)
                    /\ Truthy(loaded.CONFLUENCE_USER)
                    /\ Truthy(loaded.CONFLUENCE_TOKEN))
           THEN /\ phase' = "aborted"      \* raise ValueError
                /\ g' = loaded
           ELSE /\ phase' = "running"
                /\ g' = [loaded EXCEPT
                    !.auth = <<loaded.CONFLUENCE_USER, loaded.CONFLUENCE_TOKEN>>,
                    !.headers = <<"Content-Type: application/json">>,
                    !.GITHUB_TOKEN = getenv("GITHUB_TOKEN"),
                    !.HEADERS = IF Truthy(getenv("GITHUB_TOKEN"))
                                THEN <<"Authorization: token", getenv("GITHUB_TOKEN")>>
                                ELSE <<>>,
                    !.BASE_URL = "https://api.github.com"]
    /\ UNCHANGED <<env, svc, inv, legal, page, changes>>

\* jira.py, module level
JiraStartup ==
    /\ svc = "jira"
    /\ phase = "boot"
    /\ LET loaded == [g EXCEPT
                !.JIRA_BASE_URL = getenv("JIRA_BASE_URL"),
                !.JIRA_EMAIL = getenv("JIRA_EMAIL"),
                !.JIRA_API_TOKEN = getenv("CONFLUENCE_TOKEN")]
           all3 == /\ Truthy(loaded.JIRA_BASE_URL)
                   /\ Truthy(loaded.JIRA_EMAIL)
                   /\ Truthy(loaded.JIRA_API_TOKEN)
           all2 == Truthy(loaded.JIRA_EMAIL) /\ Truthy(loaded.JIRA_API_TOKEN)
       IN  IF ~all3 \/ ~all2
           THEN /\ phase' = "aborted"      \* raise RuntimeError
                /\ g' = loaded
           ELSE /\ phase' = "running"
                /\ g' = [loaded EXCEPT
                    !.AUTH_HEADER =
                        <<"Authorization", BasicAuth(loaded.JIRA_EMAIL, loaded.JIRA_API_TOKEN),
                          "Accept: application/json",
                          "Content-Type: application/json">>]
    /\ UNCHANGED <<env, svc, inv, legal, page, changes>>

\* main.py, module level: the check of the two credentials is commented out
RelayStartup ==
    /\ svc = "relay"
    /\ phase = "boot"
    /\ phase' = "running"
    /\ g' = [g EXCEPT
            !.FIVETRAN_API_KEY = getenv("FIVETRAN_API_KEY"),
            !.FIVETRAN_API_SECRET = getenv("FIVETRAN_API_SECRET"),
            !.headers =
                <<"Authorization",
                  BasicAuth(getenv("FIVETRAN_API_KEY"), getenv("FIVETRAN_API_SECRET")),
                  "Content-Type: application/json">>]
    /\ UNCHANGED <<env, svc, inv, legal, page, changes>>

-----------------------------------------------------------------------------
(* Invocations, requests, results *)

Slots == 1..NumSlots

NoArgs == [id |-> "", body |-> "", status |-> <<>>]
Args(id, body, status) == [id |-> id, body |-> body, status |-> status]

\* an upstream HTTP request: verb, URL (its f-string parts), credentials,
\* and the transition id of a transition POST ("" otherwise)
Request(method, url, cred, tid) ==
    [method |-> method, url |-> url, cred |-> cred, tid |-> tid]

\* how a handler ended: kind "return" or "raise".  An error value is a
\* returned dict (or one-element list) with the key "error"; msg holds the
\* parts of its text, names the transition names it lists.
NoOut ==
    [kind |-> "none", error |-> FALSE, shape |-> "", exc |-> "",
     msg |-> <<>>, names |-> <<>>, val |-> <<>>]
ReturnError(shape, msg) ==
    [NoOut EXCEPT !.kind = "return", !.error = TRUE, !.shape = shape, !.msg = msg]
ReturnErrorNames(msg, names) ==
    [ReturnError("dict", msg) EXCEPT !.names = names]
ReturnValue(shape, val) ==
    [NoOut EXCEPT !.kind = "return", !.shape = shape, !.val = val]
Raise(exc, msg) ==
    [NoOut EXCEPT !.kind = "raise", !.exc = exc, !.msg = msg]

IdleSlot ==
    [pc |-> "idle", tool |-> "", args |-> NoArgs, reqs |-> <<>>, resps |-> <<>>,
     transitions |-> <<>>, out |-> NoOut]

\* the handler was entered and blocks on its first request
Sent(tool, args, req) ==
    [IdleSlot EXCEPT !.pc = "wait", !.tool = tool, !.args = args, !.reqs = <<req>>]

\* the handler was entered and ended before any request
Ended(tool, args, out) ==
    [IdleSlot EXCEPT !.pc = "done", !.tool = tool, !.args = args, !.out = out]

\* the blocked handler got its response and ended
Finished(slot, resp, out) ==
    [slot EXCEPT !.pc = "done", !.resps = Append(@, resp), !.out = out]

\* the server dispatches an invocation to a free worker
Call(s, after) ==
    /\ phase = "running"
    /\ inv[s].pc = "idle"
    /\ inv' = [inv EXCEPT ![s] = after]

\* the upstream answers the request the handler of `tool` blocks on at `pc`
Resume(s, tool, pc, after) ==
    /\ inv[s].pc = pc
    /\ inv[s].tool = tool
    /\ inv' = [inv EXCEPT ![s] = after]

\* the worker is free again for the next invocation
Release(s) ==
    /\ inv[s].pc = "done"
    /\ inv' = [inv EXCEPT ![s] = IdleSlot]
    /\ UNCHANGED <<env, svc, phase, g, legal, page, changes>>

\* requests.Response.raise_for_status: HTTPError for 4xx and 5xx only
RaisesForStatus(resp) == resp.status >= 400 /\ resp.status < 600
HTTPError(resp) == Raise("HTTPError", <<"status error for url">>)
\* resp.json() or a lookup in it failed
BadJson == Raise("JSONDecodeError|KeyError", <<>>)
Json(resp) == <<"json", resp.text>>

-----------------------------------------------------------------------------
(* confluence_mcp.py: Confluence tools *)

Ellipsis == <<".", ".", ".">>

\* content[:500] + "..." if len(content) > 500 else content
Summarize_AtLimit(content) ==
    IF Len(content) >= SummaryLimit
    THEN SubSeq(content, 1, SummaryLimit) \o Ellipsis
    ELSE content

Summarize(content) ==
    IF Len(content) > SummaryLimit
    THEN SubSeq(content, 1, SummaryLimit) \o Ellipsis
    ELSE content

summarize_page_result(page_id, resp) ==
    IF RaisesForStatus(resp) THEN HTTPError(resp)
    ELSE IF ~resp.json_ok THEN BadJson
    ELSE ReturnValue("str", <<"Summary of page ", page_id, ": ", Summarize(page)>>)

summarize_page(s, page_id, resp) ==
    /\ svc = "confluence"
    /\ \/ Call(s, Sent("summarize_page", Args(page_id, "", <<>>),
                Request("GET", <<g.CONFLUENCE_BASE_URL, "/rest/api/content/",
                                  page_id, "?expand=body.storage">>, g.auth, "")))
       \/ Resume(s, "summarize_page", "wait",
                Finished(inv[s], resp, summarize_page_result(inv[s].args.id, resp)))
    /\ UNCHANGED <<env, svc, phase, g, legal, page, changes>>

ConfigError == Raise("ValueError", <<"Missing CONFLUENCE_SPACE_KEY in environment variables">>)

create_page_request(body) ==
    Request("POST", <<g.CONFLUENCE_BASE_URL, "/rest/api/content", g.SPACE_KEY, body>>,
            g.auth, "")

\* the handler without its space-key check
create_page_enter_unchecked(body) ==
    Sent("create_page", Args("", body, <<>>), create_page_request(body))

create_page_enter(body) ==
    IF ~Truthy(g.SPACE_KEY)
    THEN Ended("create_page", Args("", body, <<>>), ConfigError)
    ELSE Sent("create_page", Args("", body, <<>>), create_page_request(body))

create_page_result(resp) ==
    IF RaisesForStatus(resp) THEN HTTPError(resp)
    ELSE IF ~resp.json_ok THEN BadJson
    ELSE ReturnValue("dict", Json(resp))

create_page(s, body, resp) ==
    /\ svc = "confluence"
    /\ \/ Call(s, create_page_enter(body))
       \/ Resume(s, "create_page", "wait", Finished(inv[s], resp, create_page_result(resp)))
    /\ UNCHANGED <<env, svc, phase, g, legal, page, changes>>

navigate_spaces_result(resp) ==
    IF RaisesForStatus(resp) THEN HTTPError(resp)
    ELSE IF ~resp.json_ok THEN BadJson
    ELSE ReturnValue("list", <<"key,name of", Json(resp)>>)

navigate_spaces(s, limit, resp) ==
    /\ svc = "confluence"
    /\ \/ Call(s, Sent("navigate_spaces", Args(limit, "", <<>>),
                Request("GET", <<g.CONFLUENCE_BASE_URL, "/rest/api/space?limit=", limit>>,
                        g.auth, "")))
       \/ Resume(s, "navigate_spaces", "wait",
                Finished(inv[s], resp, navigate_spaces_result(resp)))
    /\ UNCHANGED <<env, svc, phase, g, legal, page, changes>>

-----------------------------------------------------------------------------
(* confluence_mcp.py: GitHub tools and resource *)

GitHubCall(s, tool, id, method, path) ==
    Call(s, Sent(tool, Args(id, "", <<>>),
                 Request(method, <<g.BASE_URL, path, id>>, g.HEADERS, "")))

list_pull_requests_result(resp) ==
    IF resp.status # 200 THEN ReturnError("list", <<resp.text>>)
    ELSE IF ~resp.json_ok THEN BadJson
    ELSE ReturnValue("list", <<"number,title,state,user of", Json(resp)>>)

list_pull_requests(s, repo, resp) ==
    /\ svc = "confluence"
    /\ \/ GitHubCall(s, "list_pull_requests", repo, "GET", "/repos/{}/pulls?state=")
       \/ Resume(s, "list_pull_requests", "wait",
                Finished(inv[s], resp, list_pull_requests_result(resp)))
    /\ UNCHANGED <<env, svc, phase, g, legal, page, changes>>

create_pull_request_result(resp) ==
    IF resp.status \notin {200, 201} THEN ReturnError("dict", <<resp.text>>)
    ELSE IF ~resp.json_ok THEN BadJson
    ELSE ReturnValue("dict", Json(resp))

create_pull_request(s, repo, resp) ==
    /\ svc = "confluence"
    /\ \/ GitHubCall(s, "create_pull_request", repo, "POST", "/repos/{}/pulls")
       \/ Resume(s, "create_pull_request", "wait",
                Finished(inv[s], resp, create_pull_request_result(resp)))
    /\ UNCHANGED <<env, svc, phase, g, legal, page, changes>>

comment_on_pull_request_result(resp) ==
    IF resp.status \notin {200, 201} THEN ReturnError("dict", <<resp.text>>)
    ELSE IF ~resp.json_ok THEN BadJson
    ELSE ReturnValue("dict", Json(resp))

comment_on_pull_request(s, repo, resp) ==
    /\ svc = "confluence"
    /\ \/ GitHubCall(s, "comment_on_pull_request", repo, "POST", "/repos/{}/issues/{}/comments")
       \/ Resume(s, "comment_on_pull_request", "wait",
                Finished(inv[s], resp, comment_on_pull_request_result(resp)))
    /\ UNCHANGED <<env, svc, phase, g, legal, page, changes>>

review_pull_request_result(resp) ==
    IF resp.status \notin {200, 201} THEN ReturnError("dict", <<resp.text>>)
    ELSE IF ~resp.json_ok THEN BadJson
    ELSE ReturnValue("dict", Json(resp))

review_pull_request(s, repo, resp) ==
    /\ svc = "confluence"
    /\ \/ GitHubCall(s, "review_pull_request", repo, "POST", "/repos/{}/pulls/{}/reviews")
       \/ Resume(s, "review_pull_request", "wait",
                Finished(inv[s], resp, review_pull_request_result(resp)))
    /\ UNCHANGED <<env, svc, phase, g, legal, page, changes>>

get_user_profile_result(resp) ==
    IF resp.status # 200 THEN ReturnError("dict", <<resp.text>>)
    ELSE IF ~resp.json_ok THEN BadJson
    ELSE ReturnValue("dict", Json(resp))

get_user_profile(s, username, resp) ==
    /\ svc = "confluence"
    /\ \/ GitHubCall(s, "get_user_profile", username, "GET", "/users/")
       \/ Resume(s, "get_user_profile", "wait",
                Finished(inv[s], resp, get_user_profile_result(resp)))
    /\ UNCHANGED <<env, svc, phase, g, legal, page, changes>>

-----------------------------------------------------------------------------
(* jira.py: tools and resource *)

JiraCall(s, tool, args, method, path) ==
    Call(s, Sent(tool, args,
                 Request(method, <<g.JIRA_BASE_URL, path, args.id>>, g.AUTH_HEADER, "")))

create_jira_issue_result(resp) ==
    IF resp.status \notin {200, 201} THEN ReturnError("dict", <<resp.text>>)
    ELSE IF ~resp.json_ok THEN BadJson
    ELSE ReturnValue("dict", Json(resp))

create_jira_issue(s, project_key, resp) ==
    /\ svc = "jira"
    /\ \/ JiraCall(s, "create_jira_issue", Args(project_key, "", <<>>),
                   "POST", "/rest/api/3/issue")
       \/ Resume(s, "create_jira_issue", "wait",
                Finished(inv[s], resp, create_jira_issue_result(resp)))
    /\ UNCHANGED <<env, svc, phase, g, legal, page, changes>>

search_issues_text_result(resp) ==
    IF resp.status # 200 THEN ReturnError("list", <<resp.text>>)
    ELSE IF ~resp.json_ok THEN BadJson
    ELSE ReturnValue("list", <<"key,summary,status of", Json(resp)>>)

search_issues_text(s, keyword, resp) ==
    /\ svc = "jira"
    /\ \/ JiraCall(s, "search_issues_text", Args(keyword, "", <<>>),
                   "GET", "/rest/api/3/search")
       \/ Resume(s, "search_issues_text", "wait",
                Finished(inv[s], resp, search_issues_text_result(resp)))
    /\ UNCHANGED <<env, svc, phase, g, legal, page, changes>>

add_jira_comment_result(resp) ==
    IF resp.status \notin {200, 201} THEN ReturnError("dict", <<resp.text>>)
    ELSE IF ~resp.json_ok THEN BadJson
    ELSE ReturnValue("dict", Json(resp))

add_jira_comment(s, issue_key, resp) ==
    /\ svc = "jira"
    /\ \/ JiraCall(s, "add_jira_comment", Args(issue_key, "", <<>>),
                   "POST", "/rest/api/3/issue/{}/comment")
       \/ Resume(s, "add_jira_comment", "wait",
                Finished(inv[s], resp, add_jira_comment_result(resp)))
    /\ UNCHANGED <<env, svc, phase, g, legal, page, changes>>

\* a 200 answer to the transitions GET carries the issue's legal transitions
list_transitions_steps_result(resp) ==
    IF resp.status # 200
    THEN ReturnError("list", <<"Failed to fetch transitions: ", resp.text>>)
    ELSE IF ~resp.json_ok THEN BadJson
    ELSE ReturnValue("list", legal)

list_transitions_steps(s, issue_key, resp) ==
    /\ svc = "jira"
    /\ \/ JiraCall(s, "list_transitions_steps", Args(issue_key, "", <<>>),
                   "GET", "/rest/api/3/issue/{}/transitions")
       \/ Resume(s, "list_transitions_steps", "wait",
                Finished(inv[s], resp, list_transitions_steps_result(resp)))
    /\ UNCHANGED <<env, svc, phase, g, legal, page, changes>>

\* assign_issue accepting 201 as well
assign_issue_result_wider(resp) ==
    IF resp.status \notin {200, 201, 204} THEN ReturnError("dict", <<resp.text>>)
    ELSE ReturnValue("dict", <<"success">>)

assign_issue_result(resp) ==
    IF resp.status \notin {200, 204} THEN ReturnError("dict", <<resp.text>>)
    ELSE ReturnValue("dict", <<"success">>)

assign_issue(s, issue_key, resp) ==
    /\ svc = "jira"
    /\ \/ JiraCall(s, "assign_issue", Args(issue_key, "", <<>>),
                   "PUT", "/rest/api/3/issue/{}/assignee")
       \/ Resume(s, "assign_issue", "wait",
                Finished(inv[s], resp, assign_issue_result(resp)))
    /\ UNCHANGED <<env, svc, phase, g, legal, page, changes>>

get_jira_issue_result(resp) ==
    IF resp.status # 200 THEN ReturnError("dict", <<resp.text>>)
    ELSE IF ~resp.json_ok THEN BadJson
    ELSE ReturnValue("dict", Json(resp))

get_jira_issue(s, issue_key, resp) ==
    /\ svc = "jira"
    /\ \/ JiraCall(s, "get_jira_issue", Args(issue_key, "", <<>>),
                   "GET", "/rest/api/3/issue/")
       \/ Resume(s, "get_jira_issue", "wait",
                Finished(inv[s], resp, get_jira_issue_result(resp)))
    /\ UNCHANGED <<env, svc, phase, g, legal, page, changes>>

-----------------------------------------------------------------------------
(* jira.py: transition_issue, and the upstream workflow it races with *)

\* str.lower on the letters the names are written in
LowerChar(c) ==
    CASE c = "D" -> "d"
      [] c = "O" -> "o"
      [] c = "N" -> "n"
      [] c = "E" -> "e"
      [] OTHER -> c

Lower(name) == [i \in DOMAIN name |-> LowerChar(name[i])]

Least(S) == CHOOSE i \in S : \A j \in S : i <= j

\* a case-sensitive comparison
FirstMatch_CaseSensitive(transitions, status) ==
    LET hits == {i \in DOMAIN transitions : transitions[i].name = status}
    IN  IF hits = {} THEN 0 ELSE Least(hits)

\* a prefix comparison (startswith) instead of equality
FirstMatch_Prefix(transitions, status) ==
    LET hits == {i \in DOMAIN transitions :
                    /\ Len(status) <= Len(transitions[i].name)
                    /\ SubSeq(Lower(transitions[i].name), 1, Len(status)) = Lower(status)}
    IN  IF hits = {} THEN 0 ELSE Least(hits)

\* next((t for t in transitions if t["name"].lower() == status.lower()), None):
\* the index of the first match, 0 for None
FirstMatch(transitions, status) ==
    LET hits == {i \in DOMAIN transitions :
                    Lower(transitions[i].name) = Lower(status)}
    IN  IF hits = {} THEN 0 ELSE Least(hits)

NamesOf(transitions) == [i \in DOMAIN transitions |-> transitions[i].name]
IdsOf(transitions) == {transitions[i].id : i \in DOMAIN transitions}

TransitionsUrl(issue_key) ==
    <<g.JIRA_BASE_URL, "/rest/api/3/issue/{}/transitions", issue_key>>

\* steps 1 and 2 with a second GET after a failed one
transition_issue_fetched_retry(slot, resp) ==
    IF resp.status # 200 /\ Len(slot.reqs) < 2
    THEN [slot EXCEPT !.resps = Append(@, resp),
                      !.reqs = Append(@, Request("GET", TransitionsUrl(slot.args.id),
                                                 g.AUTH_HEADER, ""))]
    ELSE Finished(slot, resp,
            ReturnError("dict", <<"Failed to fetch transitions: ", resp.text>>))

\* steps 1 and 2 of the handler, from the answer to the transitions GET on
transition_issue_fetched(slot, resp) ==
    IF resp.status # 200
    THEN Finished(slot, resp,
            ReturnError("dict", <<"Failed to fetch transitions: ", resp.text>>))
    ELSE IF ~resp.json_ok THEN Finished(slot, resp, BadJson)
    ELSE LET transitions == legal
             fetched == [slot EXCEPT !.transitions = transitions]
             match == FirstMatch(transitions, slot.args.status)
         IN  IF transitions = <<>>
             THEN Finished(fetched, resp,
                    ReturnError("dict", <<"No transitions available for this issue.">>))
             ELSE IF match = 0
             THEN Finished(fetched, resp,
                    ReturnErrorNames(<<"Status '{}' not found. Available: ">>,
                                     NamesOf(transitions)))
             ELSE [fetched EXCEPT
                    !.pc = "wait_post",
                    !.resps = Append(@, resp),
                    !.reqs = Append(@, Request("POST", TransitionsUrl(slot.args.id),
                                               g.AUTH_HEADER, transitions[match].id))]

\* step 3 without the status check
transition_issue_posted_unchecked(slot, resp) ==
    Finished(slot, resp, ReturnValue("dict", <<"success", slot.args.id, slot.args.status>>))

\* step 3 of the handler, from the answer to the transition POST on
transition_issue_posted(slot, resp) ==
    IF resp.status \notin {200, 204}
    THEN Finished(slot, resp, ReturnError("dict", <<"Failed to transition: ", resp.text>>))
    ELSE Finished(slot, resp,
            ReturnValue("dict", <<"success", slot.args.id, slot.args.status>>))

\* the upstream rejects a transition that is not legal when the POST arrives
UpstreamAnswersPost(req, resp) ==
    req.tid \notin IdsOf(legal) => resp.status >= 400

transition_issue(s, issue_key, status, resp) ==
    /\ svc = "jira"
    /\ \/ JiraCall(s, "transition_issue", Args(issue_key, "", status),
                   "GET", "/rest/api/3/issue/{}/transitions")
       \/ Resume(s, "transition_issue", "wait", transition_issue_fetched(inv[s], resp))
       \/ /\ Resume(s, "transition_issue", "wait_post",
                    transition_issue_posted(inv[s], resp))
          /\ UpstreamAnswersPost(inv[s].reqs[Len(inv[s].reqs)], resp)
    /\ UNCHANGED <<env, svc, phase, g, legal, page, changes>>

\* another actor moves the issue: a transition stops being legal, or a new
\* one becomes legal
UpstreamChange ==
    /\ svc = "jira"
    /\ phase = "running"
    /\ changes < MaxChanges
    /\ \/ \E i \in DOMAIN legal :
            legal' = SubSeq(legal, 1, i - 1) \o SubSeq(legal, i + 1, Len(legal))
       \/ \E t \in Transitions :
            /\ Len(legal) < MaxTransitions
            /\ legal' = Append(legal, t)
    /\ changes' = changes + 1
    /\ UNCHANGED <<env, svc, phase, g, inv, page>>

-----------------------------------------------------------------------------
(* main.py: the relay's endpoints *)

ConnectorRequest(connector_id) ==
    Request("GET", <<"https://api.fivetran.com/v1/connections", "/", connector_id>>,
            <<g.FIVETRAN_API_KEY, g.FIVETRAN_API_SECRET>>, "")

get_connector_info_result(resp) ==
    IF RaisesForStatus(resp) THEN HTTPError(resp)
    ELSE IF ~resp.json_ok THEN BadJson
    ELSE ReturnValue("dict", <<"data of", Json(resp)>>)

\* the handler with its headers assigned to the module-level name
get_connector_info_global(s, connector_id, resp) ==
    /\ svc = "relay"
    /\ \/ /\ Call(s, Sent("get_connector_info", Args(connector_id, "", <<>>),
                          ConnectorRequest(connector_id)))
          /\ g' = [g EXCEPT !.headers = <<"Content-Type: application/json; version=2">>]
       \/ /\ Resume(s, "get_connector_info", "wait",
                    Finished(inv[s], resp, get_connector_info_result(resp)))
          /\ g' = g
    /\ UNCHANGED <<env, svc, phase, legal, page, changes>>

\* BASE_URL, auth and headers are locals of the handler
get_connector_info(s, connector_id, resp) ==
    /\ svc = "relay"
    /\ \/ Call(s, Sent("get_connector_info", Args(connector_id, "", <<>>),
                       ConnectorRequest(connector_id)))
       \/ Resume(s, "get_connector_info", "wait",
                 Finished(inv[s], resp, get_connector_info_result(resp)))
    /\ UNCHANGED <<env, svc, phase, g, legal, page, changes>>

read_root(s) ==
    /\ svc = "relay"
    /\ Call(s, Ended("read_root", NoArgs,
                     ReturnValue("dict", <<"message", "Hello, World!">>)))
    /\ UNCHANGED <<env, svc, phase, g, legal, page, changes>>

-----------------------------------------------------------------------------
(* Specifications *)

Startup == ConfluenceStartup \/ JiraStartup \/ RelayStartup

\* every handler, run by the workers W against the upstream answers R, with
\* page bodies B and status arguments S
Handlers(W, R, B, S) ==
    \E s \in W, resp \in R :
        \/ \E page_id \in Ids : summarize_page(s, page_id, resp)
        \/ \E body \in B : create_page(s, body, resp)
        \/ navigate_spaces(s, "10", resp)
        \/ \E repo \in Ids : list_pull_requests(s, repo, resp)
        \/ \E repo \in Ids : create_pull_request(s, repo, resp)
        \/ \E repo \in Ids : comment_on_pull_request(s, repo, resp)
        \/ \E repo \in Ids : review_pull_request(s, repo, resp)
        \/ \E username \in Ids : get_user_profile(s, username, resp)
        \/ \E key \in Ids : create_jira_issue(s, key, resp)
        \/ \E keyword \in Ids : search_issues_text(s, keyword, resp)
        \/ \E key \in Ids : add_jira_comment(s, key, resp)
        \/ \E key \in Ids : list_transitions_steps(s, key, resp)
        \/ \E key \in Ids, status \in S : transition_issue(s, key, status, resp)
        \/ \E key \in Ids : assign_issue(s, key, resp)
        \/ \E key \in Ids : get_jira_issue(s, key, resp)
        \/ \E connector_id \in Ids : get_connector_info(s, connector_id, resp)
        \/ read_root(s)

InitProcess ==
    /\ phase = "boot"
    /\ g = NoGlobals
    /\ inv = [s \in Slots |-> IdleSlot]
    /\ changes = 0

\* one worker, every environment, every upstream answer; the upstream's
\* page and workflow vary for the processes that get to use them
Init ==
    /\ InitProcess
    /\ svc \in Services
    /\ env \in Environments(svc)
    /\ legal \in (IF svc = "jira" /\ \A n \in Reads(svc) : Truthy(env[n])
                  THEN FewTransitionLists ELSE {<<>>})
    /\ page \in (IF svc = "confluence" /\ \A n \in Required(svc) : Truthy(env[n])
                 THEN Pages ELSE {<<>>})

Next ==
    \/ Startup
    \/ Handlers({1}, Responses, Texts, {done, Do})
    \/ UpstreamChange
    \/ Release(1)

Spec == Init /\ [][Next]_vars

\* NumSlots workers running handlers concurrently, a complete environment
InitConcurrent ==
    /\ InitProcess
    /\ svc \in Services
    /\ env = FullEnvironment(svc)
    /\ legal = (IF svc = "jira" THEN <<[id |-> "11", name |-> Done]>> ELSE <<>>)
    /\ page = (IF svc = "confluence" THEN Pattern(<<"a">>, 3) ELSE <<>>)

NextConcurrent ==
    \/ Startup
    \/ Handlers(Slots, FewResponses, {"text-1"}, {done})
    \/ \E s \in Slots : Release(s)

SpecConcurrent == InitConcurrent /\ [][NextConcurrent]_vars

\* the Jira server against every workflow the upstream can hold
InitTransition ==
    /\ InitProcess
    /\ svc = "jira"
    /\ env = FullEnvironment(svc)
    /\ legal \in TransitionLists
    /\ page = <<>>

NextTransition ==
    \/ JiraStartup
    \/ \E resp \in TransitionResponses, status \in StatusArgs :
            transition_issue(1, "K-1", status, resp)
    \/ UpstreamChange
    \/ Release(1)

SpecTransition == InitTransition /\ [][NextTransition]_vars

-----------------------------------------------------------------------------
(* Properties *)

Last(seq) == seq[Len(seq)]
IsErrorValue(out) == out.kind = "return" /\ out.error
Carries(out, text) == text \in Range(out.msg)
SameIgnoringCase(a, b) == Lower(a) = Lower(b)
Posts(slot) == {k \in DOMAIN slot.reqs : slot.reqs[k].method = "POST"}
Gets(slot) == {k \in DOMAIN slot.reqs : slot.reqs[k].method = "GET"}
\* the transitions GET of this invocation was answered with a list
Fetched(slot) ==
    /\ slot.tool = "transition_issue"
    /\ Len(slot.resps) >= 1
    /\ slot.resps[1].status = 200
    /\ slot.resps[1].json_ok
\* the error is the one that lists the available transition names
ListsAvailable(out) ==
    /\ IsErrorValue(out)
    /\ out.msg = <<"Status '{}' not found. Available: ">>

\* C1: every invocation that got an upstream response with a status outside
\* 200..299 ends by returning an error value that contains the response
\* body, and never by raising.
C1_NonSuccessReturnsErrorValue ==
    \A s \in Slots :
        (inv[s].pc = "done" /\ inv[s].resps # <<>>
            /\ Last(inv[s].resps).status \notin 200..299)
        => /\ IsErrorValue(inv[s].out)
           /\ Carries(inv[s].out, Last(inv[s].resps).text)

\* C2 as stated: whenever no fetched transition name equals the status (the
\* empty list included), transition_issue ends with the error that lists the
\* fetched names and sends no POST.
C2_NoEqualNameListsNames ==
    \A s \in Slots :
        (Fetched(inv[s])
            /\ \A i \in DOMAIN inv[s].transitions :
                    inv[s].transitions[i].name # inv[s].args.status)
        => /\ inv[s].pc = "done"
           /\ ListsAvailable(inv[s].out)
           /\ inv[s].out.names = NamesOf(inv[s].transitions)
           /\ Posts(inv[s]) = {}

\* C2 amended: whenever no fetched transition name equals the status
\* ignoring letter case, transition_issue sends no POST and ends with an
\* error value: for a non-empty list the error that lists exactly the
\* fetched names in order, for the empty list the error "No transitions
\* available for this issue." which lists no name.
C2_NoMatchNoPost ==
    \A s \in Slots :
        (Fetched(inv[s])
            /\ \A i \in DOMAIN inv[s].transitions :
                    ~SameIgnoringCase(inv[s].transitions[i].name, inv[s].args.status))
        => /\ inv[s].pc = "done"
           /\ Posts(inv[s]) = {}
           /\ Len(inv[s].reqs) = 1
           /\ IsErrorValue(inv[s].out)
           /\ IF inv[s].transitions = <<>>
              THEN /\ inv[s].out.msg = <<"No transitions available for this issue.">>
                   /\ inv[s].out.names = <<>>
              ELSE /\ ListsAvailable(inv[s].out)
                   /\ inv[s].out.names = NamesOf(inv[s].transitions)

C2_Witness ==
    \E s \in Slots :
        /\ Fetched(inv[s])
        /\ inv[s].pc = "done"
        /\ inv[s].args.status = Do
        /\ inv[s].transitions =
                <<[id |-> "11", name |-> Done], [id |-> "21", name |-> Node]>>
        /\ inv[s].out.names = <<Done, Node>>
        /\ Posts(inv[s]) = {}

\* C3: whenever a fetched transition name equals the status ignoring letter
\* case, transition_issue sends exactly one POST, for the same issue, and it
\* carries the id of the first fetched transition whose name so matches; no
\* POST ever carries an id that was not fetched.
C3_MatchPostsFirstMatchingId ==
    \A s \in Slots :
        /\ (Fetched(inv[s])
                /\ \E i \in DOMAIN inv[s].transitions :
                        SameIgnoringCase(inv[s].transitions[i].name, inv[s].args.status))
           => /\ Cardinality(Posts(inv[s])) = 1
              /\ Len(inv[s].reqs) = 2
              /\ inv[s].reqs[2].method = "POST"
              /\ inv[s].reqs[2].url[3] = inv[s].args.id
              /\ \E i \in DOMAIN inv[s].transitions :
                    /\ SameIgnoringCase(inv[s].transitions[i].name, inv[s].args.status)
                    /\ \A j \in 1..(i - 1) :
                        ~SameIgnoringCase(inv[s].transitions[j].name, inv[s].args.status)
                    /\ inv[s].reqs[2].tid = inv[s].transitions[i].id
        /\ \A k \in Posts(inv[s]) : inv[s].reqs[k].tid \in IdsOf(inv[s].transitions)

C3_Witness ==
    \E s \in Slots :
        /\ Fetched(inv[s])
        /\ inv[s].pc = "done"
        /\ inv[s].args.status = DONE
        /\ inv[s].transitions =
                <<[id |-> "21", name |-> done], [id |-> "11", name |-> Done]>>
        /\ inv[s].reqs[2].tid = "21"
        /\ ~inv[s].out.error

\* C4: a service whose required environment variables are not all set and
\* non-empty aborts at startup and never serves; a service whose required
\* variables are all set does not abort.
C4_StartupRequiresConfiguration ==
    LET complete == \A n \in Required(svc) : Truthy(env[n])
    IN  /\ ~complete => (phase # "running" /\ \A s \in Slots : inv[s].pc = "idle")
        /\ complete => phase # "aborted"

\* C5: create_page without a configured space key ends with the
\* configuration error, whatever its body argument, and sends no request.
C5_NoSpaceKeyFailsFast ==
    \A s \in Slots :
        (inv[s].tool = "create_page" /\ ~Truthy(env["CONFLUENCE_SPACE_KEY"]))
        => /\ inv[s].pc = "done"
           /\ inv[s].reqs = <<>>
           /\ inv[s].resps = <<>>
           /\ inv[s].out.kind = "raise"
           /\ inv[s].out.exc = "ValueError"
           /\ inv[s].out.msg = <<"Missing CONFLUENCE_SPACE_KEY in environment variables">>

C5_Witness ==
    \E s \in Slots :
        /\ inv[s].tool = "create_page"
        /\ inv[s].args.body = "text-2"
        /\ env["CONFLUENCE_SPACE_KEY"] = ""
        /\ inv[s].out.kind = "raise"

\* C6: the summary part of summarize_page's result is the first 500
\* characters of the content followed by "..." when the content is longer
\* than 500 characters, and the content itself otherwise.
C6_SummaryTruncation ==
    \A s \in Slots :
        (inv[s].tool = "summarize_page" /\ inv[s].pc = "done"
            /\ inv[s].out.kind = "return")
        => LET summary == inv[s].out.val[4]
           IN  IF Len(page) > 500
               THEN /\ Len(summary) = 503
                    /\ \A i \in 1..500 : summary[i] = page[i]
                    /\ \A i \in 501..503 : summary[i] = "."
               ELSE summary = page

C6_Witness ==
    \E s \in Slots :
        /\ inv[s].tool = "summarize_page"
        /\ inv[s].pc = "done"
        /\ inv[s].out.kind = "return"
        /\ Len(page) = 501
        /\ page[500] # "."
        /\ Len(inv[s].out.val[4]) = 503

ForwardingTools ==
    {"summarize_page", "create_page", "navigate_spaces", "list_pull_requests",
     "create_pull_request", "comment_on_pull_request", "review_pull_request",
     "get_user_profile", "create_jira_issue", "search_issues_text",
     "add_jira_comment", "list_transitions_steps", "transition_issue",
     "assign_issue", "get_jira_issue", "get_connector_info"}

\* what C7 says of transition_issue: one GET, then at most one POST, sent
\* only after the GET was answered 200 with a matching transition
TransitionRequests(slot) ==
    /\ Len(slot.reqs) \in {1, 2}
    /\ Gets(slot) = {1}
    /\ Len(slot.reqs) = 2 =>
        /\ Posts(slot) = {2}
        /\ slot.resps[1].status = 200
        /\ \E i \in DOMAIN slot.transitions :
                SameIgnoringCase(slot.transitions[i].name, slot.args.status)

\* C7 as stated: every ended invocation has sent exactly one request, and
\* transition_issue one GET followed by at most one POST.
C7_ExactlyOneRequest ==
    \A s \in Slots :
        (inv[s].pc = "done" /\ inv[s].tool \in ForwardingTools)
        => IF inv[s].tool = "transition_issue"
           THEN TransitionRequests(inv[s])
           ELSE Len(inv[s].reqs) = 1

\* C7 amended: an invocation of create_page without a configured space key
\* sends no request; every other invocation sends exactly one request and
\* never a second one, whatever the response; transition_issue sends one GET
\* followed by at most one POST, the POST only after the GET was answered
\* 200 with a matching transition.
C7_RequestsPerInvocation ==
    \A s \in Slots :
        (inv[s].pc # "idle" /\ inv[s].tool \in ForwardingTools)
        => /\ Len(inv[s].resps) <= Len(inv[s].reqs)
           /\ IF inv[s].tool = "transition_issue"
              THEN TransitionRequests(inv[s])
              ELSE IF inv[s].tool = "create_page" /\ ~Truthy(env["CONFLUENCE_SPACE_KEY"])
              THEN inv[s].reqs = <<>>
              ELSE Len(inv[s].reqs) = 1

C7_Witness ==
    \E s \in Slots :
        /\ inv[s].tool = "transition_issue"
        /\ inv[s].pc = "done"
        /\ Len(inv[s].reqs) = 2
        /\ inv[s].resps[2].status = 500
        /\ inv[s].out.error

\* C8: when the transition POST is answered with a status other than 200 and
\* 204 (as it is when the transition stopped being legal after the GET),
\* transition_issue ends with an error value carrying the body of that
\* response, having sent one GET and one POST only; it returns success only
\* when the POST was answered 200 or 204.
C8_RejectedPostSurfaces ==
    \A s \in Slots :
        (inv[s].tool = "transition_issue" /\ inv[s].pc = "done")
        => /\ (Len(inv[s].resps) = 2 /\ inv[s].resps[2].status \notin {200, 204})
                => /\ IsErrorValue(inv[s].out)
                   /\ Carries(inv[s].out, inv[s].resps[2].text)
                   /\ Len(inv[s].reqs) = 2
                   /\ Gets(inv[s]) = {1}
                   /\ Posts(inv[s]) = {2}
           /\ (inv[s].out.kind = "return" /\ ~inv[s].out.error)
                => /\ Len(inv[s].resps) = 2
                   /\ inv[s].resps[2].status \in {200, 204}

C8_Witness ==
    \E s \in Slots :
        /\ inv[s].tool = "transition_issue"
        /\ inv[s].pc = "done"
        /\ changes > 0
        /\ Len(inv[s].reqs) = 2
        /\ inv[s].reqs[2].tid \in IdsOf(inv[s].transitions)
        /\ inv[s].reqs[2].tid \notin IdsOf(legal)
        /\ inv[s].resps[2].status = 404
        /\ Carries(inv[s].out, inv[s].resps[2].text)

SelfChecking ==
    {"list_pull_requests", "create_pull_request", "comment_on_pull_request",
     "review_pull_request", "get_user_profile", "create_jira_issue",
     "search_issues_text", "add_jira_comment", "list_transitions_steps",
     "transition_issue", "assign_issue", "get_jira_issue"}

\* C10 as stated: a self-checking tool whose last response had a 2xx status
\* never returns an error value.
C10_Every2xxSucceeds ==
    \A s \in Slots :
        (inv[s].pc = "done" /\ inv[s].tool \in SelfChecking
            /\ Last(inv[s].resps).status \in 200..299)
        => ~IsErrorValue(inv[s].out)

\* the statuses the n-th request of a tool must be answered with for the
\* tool not to return an error value
Accepted(tool, n) ==
    IF tool \in {"create_pull_request", "comment_on_pull_request",
                 "review_pull_request", "create_jira_issue", "add_jira_comment"}
    THEN {200, 201}
    ELSE IF tool = "assign_issue" \/ (tool = "transition_issue" /\ n = 2)
    THEN {200, 204}
    ELSE {200}

\* C10 amended: a self-checking tool returns an error value carrying the
\* response body whenever the status is outside the set that request
\* accepts (200; 200 or 201 for the creating tools; 200 or 204 for
\* assign_issue and the transition POST), other 2xx statuses included; a
\* status in that set never yields an error value, except that
\* transition_issue, answered 200 with a list that is empty or has no
\* matching name, returns its lookup error; and it yields a returned value
\* whenever the body is the JSON the tool reads.
C10_ErrorIffStatusNotAccepted ==
    \A s \in Slots :
        (inv[s].pc = "done" /\ inv[s].tool \in SelfChecking)
        => LET r == Last(inv[s].resps)
               ok == r.status \in Accepted(inv[s].tool, Len(inv[s].resps))
               lookup == inv[s].tool = "transition_issue" /\ Len(inv[s].resps) = 1
           IN  /\ ~ok => (IsErrorValue(inv[s].out) /\ Carries(inv[s].out, r.text))
               /\ (ok /\ ~lookup) => ~IsErrorValue(inv[s].out)
               /\ (ok /\ ~lookup /\ r.json_ok) => inv[s].out.kind = "return"
               /\ (ok /\ lookup /\ r.json_ok) =>
                    /\ IsErrorValue(inv[s].out)
                    /\ \A i \in DOMAIN inv[s].transitions :
                        ~SameIgnoringCase(inv[s].transitions[i].name, inv[s].args.status)

C10_Witness ==
    \E s \in Slots :
        /\ inv[s].tool = "assign_issue"
        /\ inv[s].pc = "done"
        /\ Last(inv[s].resps).status = 201
        /\ IsErrorValue(inv[s].out)
        /\ Carries(inv[s].out, Last(inv[s].resps).text)

====
